---- MODULE Spec2Model ----
(***************************************************************************)
(* Model of the dashboard application: the client-side routing table, the  *)
(* login page (LoginPageComponent), the settings page logout and the       *)
(* heatmap configuration component (HeatmapComponent).                     *)
(*                                                                         *)
(* Conventions:                                                            *)
(*  - a URL is the sequence of its path segments: "" is <<>>, "/login" is  *)
(*    <<"login">>;                                                         *)
(*  - a color-stop ratio is kept in hundredths (0.5 is 50, 0.8 is 80);     *)
(*  - a JavaScript value that may be a number, null or undefined is a      *)
(*    tagged record [type, val].                                           *)
(***************************************************************************)
EXTENDS Integers, Sequences, FiniteSets, TLC

VARIABLES
    url,                \* router: the current URL
    outlet,             \* router: the component shown in the router outlet
    comps,              \* every LoginPageComponent instance created so far
    cur,                \* index in comps of the displayed instance, 0 if none
    pending,            \* signInWithEmailAndPassword calls still awaited
    nCalls,             \* number of login() calls started
    currentUser,        \* firebaseService.auth.currentUser ("" when signed out)
    timers,             \* setTimeout callbacks of goToDash not yet fired
    zipCodeData,        \* the static dataset read by the heatmap
    colorScheme,        \* HeatmapComponent.colorScheme
    baseMap,            \* HeatmapComponent.baseMap
    blurRadius,         \* HeatmapComponent.blurRadius
    maxPixelIntensity,  \* HeatmapComponent.maxPixelIntensity
    mapView,            \* HeatmapComponent.mapView (with its map's basemap)
    featureLayer,       \* HeatmapComponent.featureLayer
    lastOp              \* the handler that ran last: its name, the URL it
                        \* navigated to, the rejection it caught and the
                        \* LoginPageComponent instance it ran on (0 if none)

authVars == <<url, outlet, comps, cur, pending, nCalls, currentUser, timers>>
heatVars == <<zipCodeData, colorScheme, baseMap, blurRadius,
              maxPixelIntensity, mapView, featureLayer>>
vars == <<url, outlet, comps, cur, pending, nCalls, currentUser, timers,
          zipCodeData, colorScheme, baseMap, blurRadius,
          maxPixelIntensity, mapView, featureLayer, lastOp>>

(***************************************************************************)
(* Bounds                                                                  *)
(***************************************************************************)
MaxCalls == 2       \* login() calls in one run
MaxInst == 1        \* LoginPageComponent instances in one run
MaxTimers == 1      \* goToDash timeouts outstanding at once
MaxRedirects == 2   \* redirects followed while recognising one URL
MaxLen == 3         \* records in an input dataset

Op(n, p, c, t) == [name |-> n, path |-> p, cause |-> c, this |-> t]

(***************************************************************************)
(* Routing table and URL recognition                                       *)
(***************************************************************************)
\* Faulty variant of the table: the default route redirects to /dashboard.
routesToDashboard ==
    << [path |-> <<>>, kind |-> "redirect", redirectTo |-> <<"dashboard">>,
        pathMatch |-> "full", component |-> "none"],
       [path |-> <<"dashboard">>, kind |-> "component", redirectTo |-> <<>>,
        pathMatch |-> "prefix", component |-> "DashboardComponent"],
       [path |-> <<"login">>, kind |-> "component", redirectTo |-> <<>>,
        pathMatch |-> "prefix", component |-> "LoginPageComponent"] >>

\* Variant of the table in which /dashboard is closed and sends to /login.
routesGuarded ==
    << [path |-> <<>>, kind |-> "redirect", redirectTo |-> <<"login">>,
        pathMatch |-> "full", component |-> "none"],
       [path |-> <<"dashboard">>, kind |-> "redirect", redirectTo |-> <<"login">>,
        pathMatch |-> "full", component |-> "none"],
       [path |-> <<"login">>, kind |-> "component", redirectTo |-> <<>>,
        pathMatch |-> "prefix", component |-> "LoginPageComponent"] >>

\* The routing table.
routes ==
    << [path |-> <<>>, kind |-> "redirect", redirectTo |-> <<"login">>,
        pathMatch |-> "full", component |-> "none"],
       [path |-> <<"dashboard">>, kind |-> "component", redirectTo |-> <<>>,
        pathMatch |-> "prefix", component |-> "DashboardComponent"],
       [path |-> <<"login">>, kind |-> "component", redirectTo |-> <<>>,
        pathMatch |-> "prefix", component |-> "LoginPageComponent"] >>

\* The URLs a browser may hold when the application is loaded.
Urls == { <<>>, <<"login">>, <<"dashboard">>, <<"settings">>,
          <<"dashboard", "heatmap">> }

IsPrefix(p, u) ==
    /\ Len(p) <= Len(u)
    /\ \A k \in 1..Len(p) : p[k] = u[k]

\* A route matches when its path is a prefix of the URL; pathMatch 'full'
\* and a component route without children need the whole URL consumed.
RouteMatches(r, u) ==
    /\ IsPrefix(r.path, u)
    /\ (r.pathMatch = "full" \/ r.kind = "component") => Len(u) = Len(r.path)

NoMatch == [url |-> <<>>, component |-> "none"]

\* First matching route in table order; an absolute redirect restarts the
\* recognition with the target URL.
RECURSIVE Recognize(_, _, _)
Recognize(u, i, fuel) ==
    IF i > Len(routes) THEN NoMatch
    ELSE LET r == routes[i] IN
         IF RouteMatches(r, u)
         THEN IF r.kind = "redirect"
              THEN IF fuel = 0 THEN NoMatch
                   ELSE Recognize(r.redirectTo, 1, fuel - 1)
              ELSE [url |-> u, component |-> r.component]
         ELSE Recognize(u, i + 1, fuel)

(***************************************************************************)
(* Login page                                                              *)
(***************************************************************************)
Emails == {"", "ann@example.org"}
Passwords == {"", "secret1", "wrong"}

\* Accounts known to the external identity provider.
Users == { [email |-> "ann@example.org", password |-> "secret1"] }

InvalidCredentialsMessage == "Invalid credentials. Please try again."

\* The field values of a freshly constructed LoginPageComponent.
NewLoginPageComponent == [email |-> "", password |-> "", errorMessage |-> ""]

\* The causes for which the provider can reject a sign-in call.
FailureCauses(c) ==
    IF [email |-> c.email, password |-> c.password] \in Users
    THEN {"auth/network-request-failed"}
    ELSE {"auth/invalid-credential", "auth/network-request-failed"}

\* Faulty variant: the provider's error code is shown to the user.
CatchMessageLeaky(cause) == cause
\* The message the catch block of login() stores.
CatchMessage(cause) == InvalidCredentialsMessage

\* Faulty variant: the two credentials are passed in the wrong order.
SignInArgsSwapped(comp) == [email |-> comp.password, password |-> comp.email]
\* The arguments login() passes to signInWithEmailAndPassword.
SignInArgs(comp) == [email |-> comp.email, password |-> comp.password]

\* router.navigate / initial navigation: recognise the URL and activate the
\* component.  An unmatched URL rejects the navigation and changes nothing.
\* Entering the login route constructs a new LoginPageComponent; leaving it
\* destroys the displayed one (its pending calls keep their reference).
RouterNavigate(u) ==
    LET t == Recognize(u, 1, MaxRedirects) IN
    IF t.component = "none"
    THEN UNCHANGED <<url, outlet, comps, cur>>
    ELSE /\ url' = t.url
         /\ outlet' = t.component
         /\ IF t.component = "LoginPageComponent"
            THEN IF outlet = "LoginPageComponent"
                 THEN UNCHANGED <<comps, cur>>
                 ELSE /\ comps' = Append(comps, NewLoginPageComponent)
                      /\ cur' = Len(comps) + 1
            ELSE /\ cur' = 0
                 /\ UNCHANGED comps

\* Navigation to u stays within the instance bound.
WithinInstBound(u) ==
    LET t == Recognize(u, 1, MaxRedirects) IN
    (t.component = "LoginPageComponent" /\ outlet # "LoginPageComponent")
        => Len(comps) < MaxInst

AuthInit ==
    /\ url = <<>>
    /\ outlet = "none"
    /\ comps = <<>>
    /\ cur = 0
    /\ pending = {}
    /\ nCalls = 0
    /\ currentUser = ""
    /\ timers = 0

\* The router's initial navigation to the URL the browser was loaded with.
InitialNavigation(u) ==
    /\ lastOp.name = "bootstrap"
    /\ RouterNavigate(u)
    /\ lastOp' = Op("initialNavigation", u, "", 0)
    /\ UNCHANGED <<pending, nCalls, currentUser, timers>>
    /\ UNCHANGED heatVars

\* The user types into the email field of the displayed login page.
SetEmail(e) ==
    /\ cur # 0
    /\ comps[cur].email # e
    /\ comps' = [comps EXCEPT ![cur].email = e]
    /\ lastOp' = Op("setEmail", <<>>, "", cur)
    /\ UNCHANGED <<url, outlet, cur, pending, nCalls, currentUser, timers>>
    /\ UNCHANGED heatVars

\* The user types into the password field of the displayed login page.
SetPassword(p) ==
    /\ cur # 0
    /\ comps[cur].password # p
    /\ comps' = [comps EXCEPT ![cur].password = p]
    /\ lastOp' = Op("setPassword", <<>>, "", cur)
    /\ UNCHANGED <<url, outlet, cur, pending, nCalls, currentUser, timers>>
    /\ UNCHANGED heatVars

\* goToDash(): schedules the navigation to /dashboard 300 ms later.
goToDash ==
    /\ cur # 0
    /\ timers < MaxTimers
    /\ timers' = timers + 1
    /\ lastOp' = Op("goToDash", <<>>, "", cur)
    /\ UNCHANGED <<url, outlet, comps, cur, pending, nCalls, currentUser>>
    /\ UNCHANGED heatVars

\* The callback goToDash() handed to setTimeout.
goToDashTimeout ==
    /\ timers > 0
    /\ timers' = timers - 1
    /\ RouterNavigate(<<"dashboard">>)
    /\ lastOp' = Op("goToDashTimeout", <<"dashboard">>, "", 0)
    /\ UNCHANGED <<pending, nCalls, currentUser>>
    /\ UNCHANGED heatVars

\* Variant of login() that refuses to start while a call is pending.
loginGuarded ==
    /\ cur # 0
    /\ pending = {}
    /\ nCalls < MaxCalls
    /\ nCalls' = nCalls + 1
    /\ pending' = pending \cup
          { [id |-> nCalls + 1, inst |-> cur,
             email |-> SignInArgs(comps[cur]).email,
             password |-> SignInArgs(comps[cur]).password] }
    /\ lastOp' = Op("login", <<>>, "", cur)
    /\ UNCHANGED <<url, outlet, comps, cur, currentUser, timers>>
    /\ UNCHANGED heatVars

\* login() up to its await: the sign-in call is issued with the instance's
\* current email and password and the handler is suspended.
login ==
    /\ cur # 0
    /\ nCalls < MaxCalls
    /\ nCalls' = nCalls + 1
    /\ pending' = pending \cup
          { [id |-> nCalls + 1, inst |-> cur,
             email |-> SignInArgs(comps[cur]).email,
             password |-> SignInArgs(comps[cur]).password] }
    /\ lastOp' = Op("login", <<>>, "", cur)
    /\ UNCHANGED <<url, outlet, comps, cur, currentUser, timers>>
    /\ UNCHANGED heatVars

\* login() resumed with the provider's user credential: the try block.
\* The provider has made the account its current user by then.
loginResolved(c) ==
    /\ c \in pending
    /\ [email |-> c.email, password |-> c.password] \in Users
    /\ pending' = pending \ {c}
    /\ currentUser' = c.email
    /\ RouterNavigate(<<"dashboard">>)
    /\ lastOp' = Op("loginResolved", <<"dashboard">>, "", c.inst)
    /\ UNCHANGED <<nCalls, timers>>
    /\ UNCHANGED heatVars

\* login() resumed with a rejection: the catch block, run on the instance
\* that issued the call whether or not it is still displayed.
loginRejected(c, cause) ==
    /\ c \in pending
    /\ cause \in FailureCauses(c)
    /\ pending' = pending \ {c}
    /\ comps' = [comps EXCEPT ![c.inst].errorMessage = CatchMessage(cause)]
    /\ lastOp' = Op("loginRejected", <<>>, cause, c.inst)
    /\ UNCHANGED <<url, outlet, cur, nCalls, currentUser, timers>>
    /\ UNCHANGED heatVars

\* SettingsPageComponent.logout(), available while the dashboard is shown:
\* it navigates to /login and does not sign out of the provider.
logout ==
    /\ outlet = "DashboardComponent"
    /\ WithinInstBound(<<"login">>)
    /\ RouterNavigate(<<"login">>)
    /\ lastOp' = Op("logout", <<"login">>, "", 0)
    /\ UNCHANGED <<pending, nCalls, currentUser, timers>>
    /\ UNCHANGED heatVars

NextAuth ==
    \/ \E u \in Urls : InitialNavigation(u)
    \/ \E e \in Emails : SetEmail(e)
    \/ \E p \in Passwords : SetPassword(p)
    \/ goToDash
    \/ goToDashTimeout
    \/ login
    \/ \E c \in pending : loginResolved(c)
    \/ \E c \in pending : \E cause \in FailureCauses(c) : loginRejected(c, cause)
    \/ logout

(***************************************************************************)
(* Heatmap component                                                       *)
(***************************************************************************)
Num(n) == [type |-> "number", val |-> n]
Null == [type |-> "null", val |-> 0]
Undefined == [type |-> "undefined", val |-> 0]

\* JavaScript's  v !== null : true of every number and of undefined.
StrictNotNull(v) == v.type # "null"

\* The coordinate values and records the input datasets are drawn from.
\* A record without an LNG (LAT) key reads as undefined.
CoordValues == {Num(34), Null, Undefined}
ZipCodes == {"92345", "92404"}
Entries == [Zip_Code : ZipCodes, LNG : CoordValues, LAT : CoordValues,
            Count : {7}]
Datasets == UNION { [1..n -> Entries] : n \in 0..MaxLen }

\* The dataset of the full-component specification.
SampleData ==
    << [Zip_Code |-> "92345", LNG |-> Num(34), LAT |-> Num(34), Count |-> 7],
       [Zip_Code |-> "92404", LNG |-> Null, LAT |-> Num(34), Count |-> 7],
       [Zip_Code |-> "92404", LNG |-> Num(34), LAT |-> Num(34), Count |-> 7] >>

colorSchemeOptions == {"Red", "Blue", "Purple"}
basemapOptions == {"streets", "satellite", "hybrid", "topo", "dark-gray",
                   "gray", "national-geographic"}
\* Values the blur-radius and intensity controls can hand to the component.
BlurChoices == {5, 10, 15}
IntensityChoices == {24, 100, 250}

DefaultBlurRadius == 10
DefaultMaxPixelIntensity == 24
ResetBlurRadius == 15
ResetMaxPixelIntensity == 250
MinPixelIntensity == 10

\* Faulty variant of the table: the Red ramp ends at ratio 1 like the others.
colorStopsRedEndsAtOne ==
    [ Red |-> << [ratio |-> 0, color |-> "rgba(255, 255, 255, 0)"],
                 [ratio |-> 50, color |-> "rgba(255, 140, 0, 1)"],
                 [ratio |-> 100, color |-> "rgba(255, 0, 0, 1)"] >>,
      Blue |-> << [ratio |-> 0, color |-> "rgba(0, 255, 255, 0)"],
                  [ratio |-> 50, color |-> "rgba(0, 140, 255, 0.8)"],
                  [ratio |-> 100, color |-> "rgba(0, 0, 255, 1)"] >>,
      Purple |-> << [ratio |-> 0, color |-> "rgba(0, 0, 0, 0)"],
                    [ratio |-> 50, color |-> "rgba(218, 207, 255, 1)"],
                    [ratio |-> 100, color |-> "rgba(191, 0, 255, 1)"] >> ]

\* The table of color stops in updateHeatmapRenderer (ratios in hundredths).
colorStops ==
    [ Red |-> << [ratio |-> 0, color |-> "rgba(255, 255, 255, 0)"],
                 [ratio |-> 50, color |-> "rgba(255, 140, 0, 1)"],
                 [ratio |-> 80, color |-> "rgba(255, 0, 0, 1)"] >>,
      Blue |-> << [ratio |-> 0, color |-> "rgba(0, 255, 255, 0)"],
                  [ratio |-> 50, color |-> "rgba(0, 140, 255, 0.8)"],
                  [ratio |-> 100, color |-> "rgba(0, 0, 255, 1)"] >>,
      Purple |-> << [ratio |-> 0, color |-> "rgba(0, 0, 0, 0)"],
                    [ratio |-> 50, color |-> "rgba(218, 207, 255, 1)"],
                    [ratio |-> 100, color |-> "rgba(191, 0, 255, 1)"] >> ]

\* new HeatmapRenderer({...}) as updateHeatmapRenderer builds it.
NewHeatmapRenderer(scheme, blur, maxIntensity) ==
    [ field |-> "Count",
      colorStops |-> colorStops[scheme],
      blurRadius |-> blur,
      maxPixelIntensity |-> maxIntensity,
      minPixelIntensity |-> MinPixelIntensity ]

NoRenderer ==
    [ field |-> "", colorStops |-> <<>>, blurRadius |-> 0,
      maxPixelIntensity |-> 0, minPixelIntensity |-> 0 ]

\* zipCodeData.filter(entry => entry.LNG !== null && entry.LAT !== null)
FilterEntries(data) ==
    SelectSeq(data, LAMBDA e : StrictNotNull(e.LNG) /\ StrictNotNull(e.LAT))

\* .map((entry, index) => ({geometry: new Point(...), attributes: {...}}))
MapToGraphics(kept) ==
    [ k \in 1..Len(kept) |->
        [ geometry |-> [longitude |-> kept[k].LNG, latitude |-> kept[k].LAT],
          attributes |-> [ObjectID |-> k - 1,
                          Zip_Code |-> kept[k].Zip_Code,
                          Count |-> kept[k].Count] ] ]

NoView == [created |-> FALSE, destroyed |-> FALSE, basemap |-> ""]
NoLayer == [source |-> <<>>, renderer |-> NoRenderer]

HeatFields ==
    /\ colorScheme = "Red"
    /\ baseMap = "streets"
    /\ blurRadius = DefaultBlurRadius
    /\ maxPixelIntensity = DefaultMaxPixelIntensity
    /\ mapView = NoView
    /\ featureLayer = NoLayer

\* The component is on screen: its view was initialised and not destroyed.
Live == mapView.created /\ ~mapView.destroyed

\* ngAfterViewInit(): builds the map view, the feature layer from the
\* filtered dataset, and ends with updateHeatmapRenderer().
ngAfterViewInit ==
    /\ ~mapView.created
    /\ mapView' = [created |-> TRUE, destroyed |-> FALSE, basemap |-> baseMap]
    /\ featureLayer' =
          [ source |-> MapToGraphics(FilterEntries(zipCodeData)),
            renderer |-> NewHeatmapRenderer(colorScheme, blurRadius,
                                            maxPixelIntensity) ]
    /\ lastOp' = Op("ngAfterViewInit", <<>>, "", 0)
    /\ UNCHANGED <<zipCodeData, colorScheme, baseMap, blurRadius,
                   maxPixelIntensity>>
    /\ UNCHANGED authVars

\* The option controls assign the component's public fields.
SetColorScheme(c) ==
    /\ Live
    /\ colorScheme # c
    /\ colorScheme' = c
    /\ lastOp' = Op("setColorScheme", <<>>, "", 0)
    /\ UNCHANGED <<zipCodeData, baseMap, blurRadius, maxPixelIntensity,
                   mapView, featureLayer>>
    /\ UNCHANGED authVars

SetBaseMap(b) ==
    /\ Live
    /\ baseMap # b
    /\ baseMap' = b
    /\ lastOp' = Op("setBaseMap", <<>>, "", 0)
    /\ UNCHANGED <<zipCodeData, colorScheme, blurRadius, maxPixelIntensity,
                   mapView, featureLayer>>
    /\ UNCHANGED authVars

SetBlurRadius(r) ==
    /\ Live
    /\ blurRadius # r
    /\ blurRadius' = r
    /\ lastOp' = Op("setBlurRadius", <<>>, "", 0)
    /\ UNCHANGED <<zipCodeData, colorScheme, baseMap, maxPixelIntensity,
                   mapView, featureLayer>>
    /\ UNCHANGED authVars

SetMaxPixelIntensity(m) ==
    /\ Live
    /\ maxPixelIntensity # m
    /\ maxPixelIntensity' = m
    /\ lastOp' = Op("setMaxPixelIntensity", <<>>, "", 0)
    /\ UNCHANGED <<zipCodeData, colorScheme, baseMap, blurRadius,
                   mapView, featureLayer>>
    /\ UNCHANGED authVars

\* updateHeatmapRenderer(): installs a new renderer built from the fields.
updateHeatmapRenderer ==
    /\ Live
    /\ featureLayer' = [featureLayer EXCEPT !.renderer =
          NewHeatmapRenderer(colorScheme, blurRadius, maxPixelIntensity)]
    /\ lastOp' = Op("updateHeatmapRenderer", <<>>, "", 0)
    /\ UNCHANGED <<zipCodeData, colorScheme, baseMap, blurRadius,
                   maxPixelIntensity, mapView>>
    /\ UNCHANGED authVars

\* updateBasemap(): this.mapView.map.basemap = Basemap.fromId(this.baseMap)
updateBasemap ==
    /\ Live
    /\ mapView' = [mapView EXCEPT !.basemap = baseMap]
    /\ lastOp' = Op("updateBasemap", <<>>, "", 0)
    /\ UNCHANGED <<zipCodeData, colorScheme, baseMap, blurRadius,
                   maxPixelIntensity, featureLayer>>
    /\ UNCHANGED authVars

\* resetDefaults() without its closing updateHeatmapRenderer() call.
resetDefaultsNoUpdate ==
    /\ Live
    /\ colorScheme' = "Red"
    /\ baseMap' = "streets"
    /\ blurRadius' = ResetBlurRadius
    /\ maxPixelIntensity' = ResetMaxPixelIntensity
    /\ lastOp' = Op("resetDefaults", <<>>, "", 0)
    /\ UNCHANGED <<zipCodeData, mapView, featureLayer>>
    /\ UNCHANGED authVars

\* resetDefaults(): assigns the four fields, then updateHeatmapRenderer().
resetDefaults ==
    /\ Live
    /\ colorScheme' = "Red"
    /\ baseMap' = "streets"
    /\ blurRadius' = ResetBlurRadius
    /\ maxPixelIntensity' = ResetMaxPixelIntensity
    /\ featureLayer' = [featureLayer EXCEPT !.renderer =
          NewHeatmapRenderer("Red", ResetBlurRadius, ResetMaxPixelIntensity)]
    /\ lastOp' = Op("resetDefaults", <<>>, "", 0)
    /\ UNCHANGED <<zipCodeData, mapView>>
    /\ UNCHANGED authVars

\* ngOnDestroy(): destroys the map view; the component is gone afterwards.
ngOnDestroy ==
    /\ Live
    /\ mapView' = [mapView EXCEPT !.destroyed = TRUE]
    /\ lastOp' = Op("ngOnDestroy", <<>>, "", 0)
    /\ UNCHANGED <<zipCodeData, colorScheme, baseMap, blurRadius,
                   maxPixelIntensity, featureLayer>>
    /\ UNCHANGED authVars

NextHeat ==
    \/ ngAfterViewInit
    \/ \E c \in colorSchemeOptions : SetColorScheme(c)
    \/ \E b \in basemapOptions : SetBaseMap(b)
    \/ \E r \in BlurChoices : SetBlurRadius(r)
    \/ \E m \in IntensityChoices : SetMaxPixelIntensity(m)
    \/ updateHeatmapRenderer
    \/ updateBasemap
    \/ resetDefaults
    \/ ngOnDestroy

NextData ==
    \/ ngAfterViewInit
    \/ ngOnDestroy

(***************************************************************************)
(* Specifications                                                          *)
(***************************************************************************)
\* The login page, the router and the settings logout.
InitAuth ==
    /\ AuthInit
    /\ zipCodeData = SampleData
    /\ HeatFields
    /\ lastOp = Op("bootstrap", <<>>, "", 0)

SpecAuth == InitAuth /\ [][NextAuth]_vars

\* The heatmap component over the sample dataset.
InitHeat ==
    /\ AuthInit
    /\ zipCodeData = SampleData
    /\ HeatFields
    /\ lastOp = Op("constructor", <<>>, "", 0)

SpecHeat == InitHeat /\ [][NextHeat]_vars

\* The construction of the feature layer over every bounded dataset.
InitData ==
    /\ AuthInit
    /\ zipCodeData \in Datasets
    /\ HeatFields
    /\ lastOp = Op("constructor", <<>>, "", 0)

SpecData == InitData /\ [][NextData]_vars

(***************************************************************************)
(* Properties of the login page and the router (SpecAuth)                  *)
(***************************************************************************)

\* C2: a failed authentication call leaves errorMessage of the instance that
\* made it equal to the fixed string, whatever the cause of the failure and
\* whatever the email, the password and the earlier state were.
C2_FixedErrorMessage ==
    lastOp.name = "loginRejected" =>
        comps[lastOp.this].errorMessage = "Invalid credentials. Please try again."

\* A call made with the valid credentials fails for a network error on an
\* instance that is no longer displayed, and the fixed string is stored.
C2_Witness ==
    /\ lastOp.name = "loginRejected"
    /\ lastOp.cause = "auth/network-request-failed"
    /\ comps[lastOp.this].email = "ann@example.org"
    /\ comps[lastOp.this].password = "secret1"
    /\ cur # lastOp.this
    /\ comps[lastOp.this].errorMessage = "Invalid credentials. Please try again."

\* C4: when the empty path is requested the router ends on /login showing
\* LoginPageComponent, and /login itself maps to LoginPageComponent.
C4_DefaultRouteIsLogin ==
    (lastOp.name = "initialNavigation" /\ lastOp.path \in {<<>>, <<"login">>})
        => /\ url = <<"login">>
           /\ outlet = "LoginPageComponent"
           /\ cur = 1

C4_Witness ==
    /\ lastOp.name = "initialNavigation"
    /\ lastOp.path = <<>>
    /\ url = <<"login">>
    /\ outlet = "LoginPageComponent"

\* C5: login() forwards the instance's current email and password to the
\* sign-in call and does not navigate yet; when the call succeeds the router
\* goes to /dashboard and no errorMessage changes; when it fails the router
\* stays where it is.
C5_NavigateIffSuccess ==
    [][ /\ lastOp'.name = "login" =>
             /\ \E c \in pending' \ pending :
                    /\ c.inst = cur
                    /\ c.email = comps[cur].email
                    /\ c.password = comps[cur].password
             /\ url' = url /\ outlet' = outlet
        /\ lastOp'.name = "loginResolved" =>
             /\ url' = <<"dashboard">>
             /\ outlet' = "DashboardComponent"
             /\ \A i \in 1..Len(comps) :
                    comps'[i].errorMessage = comps[i].errorMessage
        /\ lastOp'.name = "loginRejected" =>
             /\ url' = url
             /\ outlet' = outlet
      ]_vars

\* A sign-in call made from the login page has succeeded and the dashboard
\* is shown, the error message of the calling instance still empty.
C5_Witness ==
    /\ lastOp.name = "loginResolved"
    /\ outlet = "DashboardComponent"
    /\ currentUser = "ann@example.org"
    /\ comps[lastOp.this].email = "ann@example.org"
    /\ comps[lastOp.this].errorMessage = ""

\* C6: the dashboard route has no guard: a navigation to /dashboard, direct
\* or by goToDash, shows the dashboard whatever the authentication state,
\* so the dashboard is reached with no sign-in call ever having succeeded.
C6_DashboardUnguarded ==
    (lastOp.name \in {"initialNavigation", "goToDashTimeout"}
        /\ lastOp.path = <<"dashboard">>)
        => /\ url = <<"dashboard">>
           /\ outlet = "DashboardComponent"

C6_Witness ==
    /\ outlet = "DashboardComponent"
    /\ currentUser = ""
    /\ lastOp.name = "goToDashTimeout"

\* C8: login() has no concurrent-call guard: it can be started whenever the
\* login page is shown, also with calls pending; and a call that completes
\* applies its own outcome (the user and /dashboard, or the error message of
\* its own instance) and leaves the other pending calls as they are.
C8_OverlappingLogins ==
    /\ [](cur # 0 /\ nCalls < MaxCalls => ENABLED login)
    /\ [][ lastOp'.name \in {"loginResolved", "loginRejected"} =>
             \E c \in pending :
                /\ pending' = pending \ {c}
                /\ nCalls' = nCalls
                /\ lastOp'.this = c.inst
                /\ lastOp'.name = "loginResolved" =>
                      /\ currentUser' = c.email
                      /\ url' = <<"dashboard">>
                      /\ comps' = comps
                /\ lastOp'.name = "loginRejected" =>
                      /\ comps' = [comps EXCEPT ![c.inst].errorMessage =
                                      "Invalid credentials. Please try again."]
                      /\ currentUser' = currentUser
                      /\ url' = url
         ]_vars

\* Two calls were pending at once; one has failed and set the message while
\* the other is still awaited.
C8_Witness ==
    /\ lastOp.name = "loginRejected"
    /\ Cardinality(pending) >= 1
    /\ nCalls >= 2
    /\ comps[lastOp.this].errorMessage = "Invalid credentials. Please try again."

(***************************************************************************)
(* Properties of the heatmap component (SpecHeat, SpecData)                *)
(***************************************************************************)
InstalledRenderer ==
    lastOp.name \in {"ngAfterViewInit", "updateHeatmapRenderer", "resetDefaults"}

\* C1: the point set ngAfterViewInit builds contains no record that lacks a
\* coordinate (LNG or LAT missing: null or absent), and contains every
\* record that has both coordinates, in the original order.
C1_NoRecordWithoutCoordinates ==
    lastOp.name = "ngAfterViewInit" =>
        LET src == featureLayer.source
            complete == SelectSeq(zipCodeData,
                LAMBDA e : e.LNG.type = "number" /\ e.LAT.type = "number")
        IN  /\ \A k \in 1..Len(src) :
                  /\ src[k].geometry.longitude.type = "number"
                  /\ src[k].geometry.latitude.type = "number"
            /\ Len(src) = Len(complete)
            /\ \A k \in 1..Len(src) :
                  /\ src[k].geometry.longitude = complete[k].LNG
                  /\ src[k].geometry.latitude = complete[k].LAT
                  /\ src[k].attributes.Zip_Code = complete[k].Zip_Code
                  /\ src[k].attributes.Count = complete[k].Count

\* C3: the renderer installed for a named ramp carries that ramp's fixed
\* ratio/color sequence, whatever blurRadius, maxPixelIntensity and baseMap
\* are and whatever calls were made before.
C3_RampDeterminesColorStops ==
    InstalledRenderer =>
        featureLayer.renderer.colorStops =
            CASE colorScheme = "Red" ->
                   << [ratio |-> 0, color |-> "rgba(255, 255, 255, 0)"],
                      [ratio |-> 50, color |-> "rgba(255, 140, 0, 1)"],
                      [ratio |-> 80, color |-> "rgba(255, 0, 0, 1)"] >>
              [] colorScheme = "Blue" ->
                   << [ratio |-> 0, color |-> "rgba(0, 255, 255, 0)"],
                      [ratio |-> 50, color |-> "rgba(0, 140, 255, 0.8)"],
                      [ratio |-> 100, color |-> "rgba(0, 0, 255, 1)"] >>
              [] colorScheme = "Purple" ->
                   << [ratio |-> 0, color |-> "rgba(0, 0, 0, 0)"],
                      [ratio |-> 50, color |-> "rgba(218, 207, 255, 1)"],
                      [ratio |-> 100, color |-> "rgba(191, 0, 255, 1)"] >>

\* The Red ramp is installed again after other ramps and other blur and
\* intensity values were in use.
C3_Witness ==
    /\ lastOp.name = "updateHeatmapRenderer"
    /\ colorScheme = "Red"
    /\ blurRadius = 5
    /\ maxPixelIntensity = 100
    /\ baseMap = "topo"
    /\ featureLayer.renderer.colorStops[3].ratio = 80

\* C7: after initialization, after updateHeatmapRenderer and after
\* resetDefaults the active renderer has the current colorScheme's ramp, the
\* current blurRadius and maxPixelIntensity, field 'Count' and
\* minPixelIntensity 10.
C7_RendererFollowsOptions ==
    InstalledRenderer =>
        /\ featureLayer.renderer.field = "Count"
        /\ featureLayer.renderer.colorStops = colorStops[colorScheme]
        /\ featureLayer.renderer.blurRadius = blurRadius
        /\ featureLayer.renderer.maxPixelIntensity = maxPixelIntensity
        /\ featureLayer.renderer.minPixelIntensity = 10

\* resetDefaults has run on a component whose options had all been changed
\* and rendered.
C7_Witness ==
    /\ lastOp.name = "resetDefaults"
    /\ featureLayer.renderer.blurRadius = 15
    /\ featureLayer.renderer.maxPixelIntensity = 250
    /\ featureLayer.renderer.colorStops[3].color = "rgba(255, 0, 0, 1)"
    /\ mapView.basemap = "satellite"

\* C9: after resetDefaults the basemap shown by the map view is the one the
\* baseMap field names.
C9_BasemapFollowsField ==
    lastOp.name = "resetDefaults" => mapView.basemap = baseMap

\* C10: resetDefaults restores colorScheme, baseMap, blurRadius and
\* maxPixelIntensity to the values they have when the component is
\* constructed.
C10_ResetRestoresConstructed ==
    lastOp.name = "resetDefaults" =>
        /\ colorScheme = "Red"
        /\ baseMap = "streets"
        /\ blurRadius = DefaultBlurRadius
        /\ maxPixelIntensity = DefaultMaxPixelIntensity
====
